---- MODULE Spec2Model ----
(***************************************************************************)
(* Adept secret sharing (jakecraige/adss): Share / Recover, the AX         *)
(* transform and the error-correcting EX transform of adss.go over the     *)
(* base Shamir layer of s1.go.                                             *)
(*                                                                         *)
(* Byte strings are sequences of 0..255.  uint8 arithmetic is taken        *)
(* modulo 256.  The library primitives are modelled by what the protocol   *)
(* relies on: SHA-256 is a collision-free digest, AES-CTR and HKDF are     *)
(* deterministic keyed byte streams.                                       *)
(***************************************************************************)
EXTENDS Integers, Sequences, FiniteSets, TLC

(***************************************************************************)
(* Bytes and GF(256)                                                       *)
(***************************************************************************)
Byte == 0..255

uint8(x) == x % 256

RECURSIVE BitXor(_, _)
BitXor(a, b) ==
    IF a = 0 THEN b
    ELSE IF b = 0 THEN a
    ELSE ((a + b) % 2) + 2 * BitXor(a \div 2, b \div 2)

XorTab == [a \in Byte |-> [b \in Byte |-> BitXor(a, b)]]

Xor(a, b) == XorTab[a][b]

\* a*x in GF(256) modulo x^8 + x^4 + x^3 + x + 1
xtime(a) == IF 2 * a >= 256 THEN Xor(2 * a - 256, 27) ELSE 2 * a

\* shift-and-add product, used to build the tables
RECURSIVE slowMult(_, _)
slowMult(a, b) ==
    IF a = 0 \/ b = 0 THEN 0
    ELSE Xor(IF b % 2 = 1 THEN a ELSE 0, slowMult(xtime(a), b \div 2))

RECURSIVE slowPow(_, _)
slowPow(a, e) ==
    IF e = 0 THEN 1
    ELSE LET h == slowPow(a, e \div 2)
         IN IF e % 2 = 1 THEN slowMult(a, slowMult(h, h)) ELSE slowMult(h, h)

\* powers of the generator x + 1: ExpTab[i + 1] = (x + 1)^i
ExpTab == [i \in 1..255 |-> slowPow(3, i - 1)]

LogTab == [v \in 1..255 |-> CHOOSE i \in 0..254 : ExpTab[i + 1] = v]

add(a, b) == Xor(a, b)

mult(a, b) ==
    IF a = 0 \/ b = 0 THEN 0
    ELSE ExpTab[((LogTab[a] + LogTab[b]) % 255) + 1]

\* division by zero is a panic in the field engine; no caller reaches it with
\* pairwise distinct sample points
div(a, b) ==
    IF a = 0 THEN 0
    ELSE ExpTab[((LogTab[a] + 255 - LogTab[b]) % 255) + 1]

(***************************************************************************)
(* Polynomials over GF(256)                                                *)
(***************************************************************************)
\* HKDF-SHA256 keyed with seed, info = info: byte k (k >= 1) of its output
\* stream, a deterministic function of (seed, info, k)
RECURSIVE SumBytes(_)
SumBytes(s) == IF s = <<>> THEN 0 ELSE uint8(s[1] + SumBytes(Tail(s)))

hkdfByte(seed, info, k) ==
    IF seed = <<>> THEN uint8(29 * k + SumBytes(info) + 1)
    ELSE Xor(seed[((k - 1) % Len(seed)) + 1],
             uint8(29 * k + 3 * ((k - 1) \div Len(seed)) + SumBytes(info) + 1))

\* a polynomial of the given degree: the intercept, then degree coefficients
\* read from the stream starting after offset bytes
makePolynomial(intercept, degree, seed, info, offset) ==
    <<intercept>> \o [d \in 1..degree |-> hkdfByte(seed, info, offset + d)]

\* Horner's rule, highest coefficient first
RECURSIVE horner(_, _, _, _)
horner(coefficients, x, i, acc) ==
    IF i = 0 THEN acc
    ELSE horner(coefficients, x, i - 1, add(mult(acc, x), coefficients[i]))

evaluate(coefficients, x) ==
    IF x = 0 THEN coefficients[1]
    ELSE horner(coefficients, x, Len(coefficients), 0)

\* Lagrange basis i at the point x
RECURSIVE basis(_, _, _, _)
basis(xSamples, x, i, j) ==
    IF j > Len(xSamples) THEN 1
    ELSE IF j = i THEN basis(xSamples, x, i, j + 1)
    ELSE mult(div(add(x, xSamples[j]), add(xSamples[i], xSamples[j])),
              basis(xSamples, x, i, j + 1))

RECURSIVE lagrange(_, _, _, _)
lagrange(xSamples, ySamples, x, i) ==
    IF i > Len(xSamples) THEN 0
    ELSE add(mult(ySamples[i], basis(xSamples, x, i, 1)),
             lagrange(xSamples, ySamples, x, i + 1))

interpolatePolynomial(xSamples, ySamples, x) == lagrange(xSamples, ySamples, x, 1)

(***************************************************************************)
(* Library primitives                                                      *)
(***************************************************************************)
\* sha256.Size: a digest has 32 entries
Size == 32

\* SHA-256 as a collision-free digest: digest word i packs input bytes
\* 3i-2 .. 3i (256 marks a position past the end of the input), so two inputs
\* of at most 96 bytes have the same digest only if they are equal
sumEntry(data, j) == IF j <= Len(data) THEN data[j] ELSE 256

Sum256(data) ==
    [i \in 1..Size |->
        sumEntry(data, 3 * i - 2) + 257 * sumEntry(data, 3 * i - 1)
            + 66049 * sumEntry(data, 3 * i)]

\* a digest consumed as key material: its 32 bytes
digestBytes(d) ==
    [i \in 1..Len(d) |-> uint8(d[i] + (d[i] \div 257) + (d[i] \div 66049))]

\* aes.NewCipher accepts AES-128, AES-192 and AES-256 keys
aesKeySizes == {16, 24, 32}

\* AES-CTR: byte i (i >= 1) of the key stream of key k under the IV whose 16
\* bytes all equal iv, a deterministic function of (k, iv, i)
ctrByte(k, iv, i) ==
    Xor(k[((i - 1) % Len(k)) + 1],
        uint8(17 * i + 85 * iv + 5 * ((i - 1) \div Len(k)) + 1))

XORKeyStream(k, iv, src) ==
    [i \in 1..Len(src) |-> Xor(src[i], ctrByte(k, iv, i))]

(***************************************************************************)
(* s1.go: the base secret sharing layer                                    *)
(***************************************************************************)
s1Share(A, M, R, T) ==
    LET degree == uint8(A.T - 1)
        poly(i) == makePolynomial(M[i], degree, R, T, (i - 1) * degree)
        secrets == [j \in 1..A.N |->
                        [i \in 1..Len(M) |-> evaluate(poly(i), uint8(j))]]
    IN [err |-> "",
        shares |-> [j \in 1..A.N |->
                        [i |-> uint8(j - 1), t |-> A.T, n |-> A.N,
                         secret |-> secrets[j]]]]

s1Recover(shares) ==
    IF Len(shares) < 1
    THEN [panic |-> FALSE,
          err |-> "missing argument: shares, was nil or 0 length", msg |-> <<>>]
    ELSE
    LET t == Len(shares)
        k == shares[1].t
        mLen == Len(shares[1].secret)
        xSamples == [j \in 1..t |-> uint8(shares[j].i + 1)]
    IN IF t < k
       THEN [panic |-> FALSE,
             err |-> "not enough shares provided, got: " \o ToString(t)
                        \o ", need: " \o ToString(k),
             msg |-> <<>>]
       ELSE IF \E j \in 1..t : Len(shares[j].secret) < mLen
       THEN \* share.secret[i]: index out of range
            [panic |-> TRUE, err |-> "", msg |-> <<>>]
       ELSE [panic |-> FALSE, err |-> "",
             msg |-> [i \in 1..mLen |->
                        interpolatePolynomial(xSamples,
                            [j \in 1..t |-> shares[j].secret[i]], 0)]]

(***************************************************************************)
(* adss.go                                                                 *)
(***************************************************************************)
NewAccessStructure(t, n) == [T |-> t, N |-> n]

AccessStructureBytes(as) == <<as.T, as.N>>

isSupportedIDSet(as, IDs) == TRUE

\* SecretShare.Bytes: the fields appended without delimiters
Bytes(ss) ==
    AccessStructureBytes(ss.As) \o <<ss.ID>> \o ss.Pub.C \o ss.Pub.D
        \o ss.Pub.J \o ss.Sec \o ss.Tag

\* Equal comparing the id and the secret only
EqualSecrets(ss, other) == ss.ID = other.ID /\ ss.Sec = other.Sec

Equal(ss, other) == Bytes(ss) = Bytes(other)

\* toS1 with the id moved to the next participant
toS1NextID(ss) ==
    [i |-> uint8(ss.ID + 1), t |-> ss.As.T, n |-> ss.As.N, secret |-> ss.Sec]

toS1(ss) == [i |-> ss.ID, t |-> ss.As.T, n |-> ss.As.N, secret |-> ss.Sec]

\* computeJKL hashing the access structure, the message and the coins only
computeJKLNoTag(A, M, R, T) ==
    LET input == AccessStructureBytes(A) \o M \o R
        J1 == Sum256(<<1>> \o input)
        J2 == Sum256(<<2>> \o input)
    IN [J |-> J1 \o J2,
        K |-> digestBytes(Sum256(<<3>> \o input)),
        L |-> digestBytes(Sum256(<<4>> \o input))]

computeJKL(A, M, R, T) ==
    LET input == AccessStructureBytes(A) \o M \o R \o T
        J1 == Sum256(<<1>> \o input)
        J2 == Sum256(<<2>> \o input)
    IN [J |-> J1 \o J2,
        K |-> digestBytes(Sum256(<<3>> \o input)),
        L |-> digestBytes(Sum256(<<4>> \o input))]

xorKeyStreamTwoInputs(k, p1, p2) ==
    IF Len(k) \notin aesKeySizes
    THEN [err |-> "crypto/aes: invalid key size " \o ToString(Len(k)),
          c1 |-> <<>>, c2 |-> <<>>]
    ELSE [err |-> "", c1 |-> XORKeyStream(k, 0, p1), c2 |-> XORKeyStream(k, 1, p2)]

\* internalShare seeding the base split with the coins R
internalShareSeededByCoins(A, M, R, T) ==
    LET h == computeJKL(A, M, R, T)
        e == xorKeyStreamTwoInputs(h.K, M, R)
        s1 == s1Share(A, h.K, R, <<>>)
    IN [err |-> "",
        shares |-> [i \in 1..A.N |->
                        [As |-> A, ID |-> s1.shares[i].i,
                         Pub |-> [C |-> e.c1, D |-> e.c2, J |-> h.J],
                         Sec |-> s1.shares[i].secret, Tag |-> T]]]

\* internalShare leaving the tag out of the shares it builds
internalShareUntagged(A, M, R, T) ==
    LET h == computeJKL(A, M, R, T)
        e == xorKeyStreamTwoInputs(h.K, M, R)
        s1 == s1Share(A, h.K, h.L, <<>>)
    IN [err |-> "",
        shares |-> [i \in 1..A.N |->
                        [As |-> A, ID |-> s1.shares[i].i,
                         Pub |-> [C |-> e.c1, D |-> e.c2, J |-> h.J],
                         Sec |-> s1.shares[i].secret, Tag |-> <<>>]]]

\* internalShare splitting the message instead of the key K
internalShareOfMessage(A, M, R, T) ==
    LET h == computeJKL(A, M, R, T)
        e == xorKeyStreamTwoInputs(h.K, M, R)
        s1 == s1Share(A, M, h.L, <<>>)
    IN [err |-> "",
        shares |-> [i \in 1..A.N |->
                        [As |-> A, ID |-> s1.shares[i].i,
                         Pub |-> [C |-> e.c1, D |-> e.c2, J |-> h.J],
                         Sec |-> s1.shares[i].secret, Tag |-> T]]]

internalShare(A, M, R, T) ==
    LET h == computeJKL(A, M, R, T)
        e == xorKeyStreamTwoInputs(h.K, M, R)
        s1 == s1Share(A, h.K, h.L, <<>>)
    IN IF e.err # "" THEN [err |-> e.err, shares |-> <<>>]
       ELSE IF s1.err # "" THEN [err |-> s1.err, shares |-> <<>>]
       ELSE [err |-> "",
             shares |-> [i \in 1..A.N |->
                            [As |-> A, ID |-> s1.shares[i].i,
                             Pub |-> [C |-> e.c1, D |-> e.c2, J |-> h.J],
                             Sec |-> s1.shares[i].secret, Tag |-> T]]]

\* isSubset comparing position by position
isSubsetPrefix(subset, set) ==
    /\ Len(subset) <= Len(set)
    /\ \A a \in 1..Len(subset) : Equal(subset[a], set[a])

isSubset(subset, set) ==
    /\ Len(subset) <= Len(set)
    /\ \A a \in 1..Len(subset) : \E b \in 1..Len(set) : Equal(subset[a], set[b])

RECURSIVE sharesDescFrom(_, _)
sharesDescFrom(shares, i) ==
    IF i > Len(shares) THEN ""
    ELSE "ID:" \o ToString(shares[i].ID)
            \o (IF i # Len(shares) THEN ", " ELSE "")
            \o sharesDescFrom(shares, i + 1)

sharesDesc(shares) == "{" \o sharesDescFrom(shares, 1) \o "}"

\* the inner loops of kSubsets appending shares[i] after the window
RECURSIVE kSubsetsInnerWindowFirst(_, _, _, _)
kSubsetsInnerWindowFirst(k, shares, i, j) ==
    IF j > Len(shares) \/ j + k - 2 > Len(shares) THEN <<>>
    ELSE <<(SubSeq(shares, j, j + k - 2) \o <<shares[i]>>)>>
            \o kSubsetsInnerWindowFirst(k, shares, i, j + 1)

\* the inner loops of kSubsets: shares[i] followed by the k-1 shares at
\* positions j .. j+k-2 (counted from 1), for every j after i that leaves room
RECURSIVE kSubsetsInner(_, _, _, _)
kSubsetsInner(k, shares, i, j) ==
    IF j > Len(shares) \/ j + k - 2 > Len(shares) THEN <<>>
    ELSE <<(<<shares[i]>> \o SubSeq(shares, j, j + k - 2))>>
            \o kSubsetsInner(k, shares, i, j + 1)

RECURSIVE kSubsetsOuter(_, _, _)
kSubsetsOuter(k, shares, i) ==
    IF i > Len(shares) THEN <<>>
    ELSE kSubsetsInner(k, shares, i, i + 1) \o kSubsetsOuter(k, shares, i + 1)

kSubsets(k, shares) ==
    IF k > Len(shares) THEN [panic |-> TRUE, out |-> <<>>]
    ELSE IF k = Len(shares) THEN [panic |-> FALSE, out |-> <<shares>>]
    ELSE [panic |-> FALSE, out |-> kSubsetsOuter(k, shares, 1)]

\* the consistency checks made one kind after the other over the whole pool
validateFromByKind(shares, i, seenIndexes) ==
    IF \E j \in i..Len(shares) : shares[j].As # shares[1].As
    THEN "shares have inconsistent access structures"
    ELSE IF \E j \in i..Len(shares) : shares[j].Tag # shares[1].Tag
    THEN "shares have inconsistent tags"
    ELSE IF \E j \in i..Len(shares) :
                shares[j].ID \in seenIndexes
                    \/ \E l \in i..(j - 1) : shares[l].ID = shares[j].ID
    THEN "duplicate share ID found"
    ELSE ""

\* the consistency loop comparing the id before the access structure
RECURSIVE validateFromIDFirst(_, _, _)
validateFromIDFirst(shares, i, seenIndexes) ==
    IF i > Len(shares) THEN ""
    ELSE IF shares[i].ID \in seenIndexes
    THEN "duplicate share ID found"
    ELSE IF shares[i].As # shares[1].As
    THEN "shares have inconsistent access structures"
    ELSE IF shares[i].Tag # shares[1].Tag
    THEN "shares have inconsistent tags"
    ELSE validateFromIDFirst(shares, i + 1, seenIndexes \cup {shares[i].ID})

\* the consistency loop without the comparison of tags
RECURSIVE validateFromNoTag(_, _, _)
validateFromNoTag(shares, i, seenIndexes) ==
    IF i > Len(shares) THEN ""
    ELSE IF shares[i].As # shares[1].As
    THEN "shares have inconsistent access structures"
    ELSE IF shares[i].ID \in seenIndexes
    THEN "duplicate share ID found"
    ELSE validateFromNoTag(shares, i + 1, seenIndexes \cup {shares[i].ID})

\* the consistency loop over shares[1:]: the first violated check, in the
\* order access structure, tag, duplicate id
RECURSIVE validateFrom(_, _, _)
validateFrom(shares, i, seenIndexes) ==
    IF i > Len(shares) THEN ""
    ELSE IF shares[i].As # shares[1].As
    THEN "shares have inconsistent access structures"
    ELSE IF shares[i].Tag # shares[1].Tag
    THEN "shares have inconsistent tags"
    ELSE IF shares[i].ID \in seenIndexes
    THEN "duplicate share ID found"
    ELSE validateFrom(shares, i + 1, seenIndexes \cup {shares[i].ID})

\* the subsets enumerated down to size t - 1
RECURSIVE plausibleFromBelow(_, _, _)
plausibleFromBelow(shares, i, t) ==
    IF i < t - 1 \/ i < 1 THEN [panic |-> FALSE, out |-> <<>>, calls |-> 0]
    ELSE LET ks == kSubsets(i, shares)
             rest == plausibleFromBelow(shares, i - 1, t)
         IN [panic |-> ks.panic \/ rest.panic, out |-> ks.out \o rest.out,
             calls |-> 1 + rest.calls]

\* the subsets enumerated from the smallest size up
RECURSIVE plausibleFromAscending(_, _, _)
plausibleFromAscending(shares, i, t) ==
    IF i < t THEN [panic |-> FALSE, out |-> <<>>, calls |-> 0]
    ELSE LET ks == kSubsets(i, shares)
             rest == plausibleFromAscending(shares, i - 1, t)
         IN [panic |-> ks.panic \/ rest.panic, out |-> rest.out \o ks.out,
             calls |-> 1 + rest.calls]

\* subsets of size i, i-1, ..., t: the largest first
RECURSIVE plausibleFrom(_, _, _)
plausibleFrom(shares, i, t) ==
    IF i < t THEN [panic |-> FALSE, out |-> <<>>, calls |-> 0]
    ELSE LET ks == kSubsets(i, shares)
             rest == plausibleFrom(shares, i - 1, t)
         IN [panic |-> ks.panic \/ rest.panic, out |-> ks.out \o rest.out,
             calls |-> 1 + rest.calls]

\* computeKPlausibleShareSets enumerating the subsets before it validates
computeKPlausibleShareSetsEager(shares) ==
    IF Len(shares) = 0
    THEN [panic |-> FALSE, err |-> "no shares provided", out |-> <<>>,
          enumerated |-> 0]
    ELSE LET verr == validateFrom(shares, 2, {shares[1].ID})
             ps == plausibleFrom(shares, Len(shares), shares[1].As.T)
         IN IF verr # ""
            THEN [panic |-> FALSE, err |-> verr, out |-> <<>>,
                  enumerated |-> ps.calls]
            ELSE [panic |-> ps.panic, err |-> "", out |-> ps.out,
                  enumerated |-> ps.calls]

computeKPlausibleShareSets(shares) ==
    IF Len(shares) = 0
    THEN [panic |-> FALSE, err |-> "no shares provided", out |-> <<>>,
          enumerated |-> 0]
    ELSE LET verr == validateFrom(shares, 2, {shares[1].ID})
         IN IF verr # ""
            THEN [panic |-> FALSE, err |-> verr, out |-> <<>>, enumerated |-> 0]
            ELSE LET ps == plausibleFrom(shares, Len(shares), shares[1].As.T)
                 IN [panic |-> ps.panic, err |-> "", out |-> ps.out,
                     enumerated |-> ps.calls]

AxFailed(e) == [panic |-> FALSE, err |-> e, M |-> <<>>]

AxPanicked == [panic |-> TRUE, err |-> "", M |-> <<>>]

\* axRecover without the comparison against the re-share
axRecoverNoSubsetCheck(shares, M, reshares) ==
    IF reshares.err # "" THEN AxPanicked
    ELSE [panic |-> FALSE, err |-> "", M |-> M]

\* axRecover from the re-share on: reshares is internalShare(A, M, R, T)
axRecoverReshare(shares, M, reshares) ==
    IF reshares.err # "" THEN AxPanicked
    ELSE IF ~isSubset(shares, reshares.shares)
    THEN AxFailed("not a subset of resharing")
    ELSE [panic |-> FALSE, err |-> "", M |-> M]

\* axRecover comparing against the re-share before it verifies the checksum
axRecoverVerifySubsetFirst(shares, K, M, R, recov) ==
    IF ~isSubset(shares, internalShare(shares[1].As, M, R, shares[1].Tag).shares)
    THEN AxFailed("not a subset of resharing")
    ELSE IF recov.J # shares[1].Pub.J \/ recov.K # K THEN AxFailed("checksum failed")
    ELSE [panic |-> FALSE, err |-> "", M |-> M]

\* axRecover from the integrity check on: recov is computeJKL(A, M, R, T)
axRecoverVerify(shares, K, M, R, recov) ==
    IF recov.J # shares[1].Pub.J \/ recov.K # K THEN AxFailed("checksum failed")
    ELSE IF ~isSupportedIDSet(shares[1].As,
                              [i \in 1..Len(shares) |-> shares[i].ID])
    THEN AxFailed("unsupported share IDs")
    ELSE axRecoverReshare(shares, M,
            internalShare(shares[1].As, M, R, shares[1].Tag))

\* axRecover from the decryption on: d is xorKeyStreamTwoInputs(K, C, D)
axRecoverDecrypt(shares, K, d) ==
    IF d.err # "" THEN AxFailed(d.err)
    ELSE axRecoverVerify(shares, K, d.c1, d.c2,
            computeJKL(shares[1].As, d.c1, d.c2, shares[1].Tag))

\* axRecover once the key is combined: r is s1Recover(s1Shares)
axRecoverKey(shares, r) ==
    IF r.panic THEN AxPanicked
    ELSE IF r.err # "" THEN AxFailed(r.err)
    ELSE axRecoverDecrypt(shares, r.msg,
            xorKeyStreamTwoInputs(r.msg, shares[1].Pub.C, shares[1].Pub.D))

axRecover(shares) ==
    axRecoverKey(shares, s1Recover([i \in 1..Len(shares) |-> toS1(shares[i])]))

\* the first loop of exAxRecover from candidate i on: the first candidate that
\* recovers, or the error of the last candidate tried (err as it stood before)
RECURSIVE firstExplanation(_, _, _)
firstExplanationStep(allShareSets, i, r) ==
    IF r.panic
    THEN [panic |-> TRUE, found |-> FALSE, err |-> "", idx |-> 0, M |-> <<>>,
          tried |-> i]
    ELSE IF r.err = ""
    THEN [panic |-> FALSE, found |-> TRUE, err |-> "", idx |-> i, M |-> r.M,
          tried |-> i]
    ELSE firstExplanation(allShareSets, i + 1, r.err)

firstExplanation(allShareSets, i, err) ==
    IF i > Len(allShareSets)
    THEN [panic |-> FALSE, found |-> FALSE, err |-> err, idx |-> 0, M |-> <<>>,
          tried |-> i - 1]
    ELSE firstExplanationStep(allShareSets, i, axRecover(allShareSets[i]))

\* the second loop from candidate i on: a later candidate that recovers and is
\* no subset of V
RECURSIVE secondExplanation(_, _, _)
secondExplanationStep(allShareSets, i, V, r) ==
    IF r.panic THEN [panic |-> TRUE, err |-> "", tried |-> i]
    ELSE IF r.err # "" THEN secondExplanation(allShareSets, i + 1, V)
    ELSE IF ~isSubset(allShareSets[i], V)
    THEN [panic |-> FALSE,
          err |-> "multiple explanations: " \o sharesDesc(allShareSets[i])
                    \o " and " \o sharesDesc(V),
          tried |-> i]
    ELSE secondExplanation(allShareSets, i + 1, V)

secondExplanation(allShareSets, i, V) ==
    IF i > Len(allShareSets) THEN [panic |-> FALSE, err |-> "", tried |-> i - 1]
    ELSE secondExplanationStep(allShareSets, i, V, axRecover(allShareSets[i]))

\* An outcome of exAxRecover.  enumerated and tried observe the call: the
\* number of calls of kSubsets and the number of calls of axRecover it made.
Panicked ==
    [panic |-> TRUE, err |-> "", M |-> <<>>, V |-> <<>>,
     enumerated |-> 0, tried |-> 0]

Failed(e) ==
    [panic |-> FALSE, err |-> e, M |-> <<>>, V |-> <<>>,
     enumerated |-> 0, tried |-> 0]

\* exAxRecover after the second loop: s is its outcome
exAxRecoverReturn(M, V, s) ==
    IF s.panic THEN [Panicked EXCEPT !.tried = s.tried]
    ELSE IF s.err # "" THEN [Failed(s.err) EXCEPT !.tried = s.tried]
    ELSE [panic |-> FALSE, err |-> "", M |-> M, V |-> V,
          enumerated |-> 0, tried |-> s.tried]

\* exAxRecover after the first loop: f is its outcome.  With no candidate at
\* all err is still nil and allShareSets[firstExplanationIDx+1:] is out of range
\* exAxRecover reporting the error of the first candidate instead of the last
exAxRecoverSecondOfFirst(allShareSets, f) ==
    IF f.panic THEN [Panicked EXCEPT !.tried = f.tried]
    ELSE IF f.err # ""
    THEN [Failed("recovery: " \o axRecover(allShareSets[1]).err)
            EXCEPT !.tried = f.tried]
    ELSE IF ~f.found THEN Panicked
    ELSE exAxRecoverReturn(f.M, allShareSets[f.idx],
            secondExplanation(allShareSets, f.idx + 1, allShareSets[f.idx]))

exAxRecoverSecond(allShareSets, f) ==
    IF f.panic THEN [Panicked EXCEPT !.tried = f.tried]
    ELSE IF f.err # "" THEN [Failed("recovery: " \o f.err) EXCEPT !.tried = f.tried]
    ELSE IF ~f.found THEN Panicked
    ELSE exAxRecoverReturn(f.M, allShareSets[f.idx],
            secondExplanation(allShareSets, f.idx + 1, allShareSets[f.idx]))

\* exAxRecover once the candidates are computed
exAxRecoverFirst(p) ==
    IF p.panic THEN [Panicked EXCEPT !.enumerated = p.enumerated]
    ELSE IF p.err # ""
    THEN [Failed("plausible shares: " \o p.err) EXCEPT !.enumerated = p.enumerated]
    ELSE [exAxRecoverSecond(p.out, firstExplanation(p.out, 1, ""))
            EXCEPT !.enumerated = p.enumerated]

exAxRecover(shares) == exAxRecoverFirst(computeKPlausibleShareSets(shares))

Recover(shares) == exAxRecover(shares)

(***************************************************************************)
(* The callers: one or two Share calls, a pool of shares assembled from    *)
(* their output (possibly modified on the way), one Recover call           *)
(***************************************************************************)
VARIABLES access, message, assoc, coins, sharings, pool, result, pc

vars == <<access, message, assoc, coins, sharings, pool, result, pc>>

\* largest share count n of the access structures tried
MaxN == 3
\* longest message tried
MaxLen == 2
\* longest pool handed to Recover when shares may repeat
MaxPool == 3
\* rand.Read fills 32 bytes of coins
CoinLen == 32

Text == <<104, 101, 108, 108, 111, 32, 119, 111, 114, 108, 100>>

Messages == {SubSeq(Text, 1, l) : l \in 0..MaxLen}

Tags == {<<>>, <<115, 111>>}

Coins == {[i \in 1..CoinLen |-> uint8(7 * i + 3)],
          [i \in 1..CoinLen |-> uint8(11 * i + 5)]}

Structures == {NewAccessStructure(t, n) : t \in 2..MaxN, n \in 2..MaxN}

NoResult ==
    [panic |-> FALSE, err |-> "not called", M |-> <<>>, V |-> <<>>,
     enumerated |-> 0, tried |-> 0]

\* the state before Share is called, with its arguments chosen
InitWith(structures, messages, tags) ==
    /\ access \in structures
    /\ message \in messages
    /\ assoc \in tags
    /\ coins = <<>>
    /\ sharings = <<>>
    /\ pool = <<>>
    /\ result = NoResult
    /\ pc = "share"

Init == InitWith({a \in Structures : a.T <= a.N}, Messages, Tags)

\* Share whose output depends on how many sharings were made before
ShareCounting(A, M, T, R) ==
    internalShare(A, M, [R EXCEPT ![1] = uint8(@ + Len(sharings))], T)

\* Share(A, M, T) with the coins R that rand.Read returned
Share(A, M, T, R) == internalShare(A, M, R, T)

CallShare ==
    /\ pc = "share"
    /\ \E R \in Coins :
        /\ coins' = <<R>>
        /\ sharings' = <<Share(access, message, assoc, R).shares>>
    /\ pc' = "pool"
    /\ UNCHANGED <<access, message, assoc, pool, result>>

\* a second, independent Share of the same message: fresh coins
CallShareAgain ==
    /\ pc = "pool"
    /\ Len(sharings) = 1
    /\ pool = <<>>
    /\ \E R \in Coins :
        /\ R # coins[1]
        /\ coins' = Append(coins, R)
        /\ sharings' = Append(sharings, Share(access, message, assoc, R).shares)
    /\ UNCHANGED <<access, message, assoc, pool, result, pc>>

PoolIDs == {pool[p].ID : p \in 1..Len(pool)}

\* the caller adds a share of the first sharing whose id is not in the pool
Present ==
    /\ pc = "pool"
    /\ \E i \in 1..Len(sharings[1]) :
        /\ sharings[1][i].ID \notin PoolIDs
        /\ pool' = Append(pool, sharings[1][i])
    /\ UNCHANGED <<access, message, assoc, coins, sharings, result, pc>>

\* the caller adds shares by increasing id, from any of the sharings
PresentInOrder ==
    /\ pc = "pool"
    /\ \E s \in 1..Len(sharings) : \E i \in 1..Len(sharings[s]) :
        /\ \A q \in PoolIDs : q < sharings[s][i].ID
        /\ pool' = Append(pool, sharings[s][i])
    /\ UNCHANGED <<access, message, assoc, coins, sharings, result, pc>>

\* the caller adds a share of the first sharing whatever the pool holds
PresentAgain ==
    /\ pc = "pool"
    /\ Len(pool) < MaxPool
    /\ \E i \in 1..Len(sharings[1]) : pool' = Append(pool, sharings[1][i])
    /\ UNCHANGED <<access, message, assoc, coins, sharings, result, pc>>

Genuine(ss) ==
    \E s \in 1..Len(sharings) : \E i \in 1..Len(sharings[s]) : ss = sharings[s][i]

Untouched == \A p \in 1..Len(pool) : Genuine(pool[p])

\* one byte of C, D, J or Sec changed, as cloneShare and mod.pub.C[0] + 1 do
modByte(ss, f, i) ==
    CASE f = "C" -> [ss EXCEPT !.Pub.C[i] = uint8(@ + 1)]
      [] f = "D" -> [ss EXCEPT !.Pub.D[i] = uint8(@ + 1)]
      [] f = "J" -> [ss EXCEPT !.Pub.J[i] = @ + 1]
      [] f = "Sec" -> [ss EXCEPT !.Sec[i] = uint8(@ + 1)]

fieldOf(ss, f) ==
    CASE f = "C" -> ss.Pub.C
      [] f = "D" -> ss.Pub.D
      [] f = "J" -> ss.Pub.J
      [] f = "Sec" -> ss.Sec

ByteFields == {"C", "D", "J", "Sec"}

\* one share of the pool gets one byte of one of its byte fields changed
TamperByte ==
    /\ pc = "pool"
    /\ Untouched
    /\ \E p \in 1..Len(pool) : \E f \in ByteFields :
        \E i \in {1, Len(fieldOf(pool[p], f))} \cap DOMAIN fieldOf(pool[p], f) :
            pool' = [pool EXCEPT ![p] = modByte(@, f, i)]
    /\ UNCHANGED <<access, message, assoc, coins, sharings, result, pc>>

\* the tag, the threshold, the number of parties or the id of a share changed
modHeader(ss, f, v) ==
    CASE f = "Tag" -> [ss EXCEPT !.Tag = IF @ = <<>> THEN <<1>>
                                         ELSE [@ EXCEPT ![1] = uint8(@ + 1)]]
      [] f = "As" -> [ss EXCEPT !.As.T = uint8(@ + 1)]
      [] f = "N" -> [ss EXCEPT !.As.N = uint8(@ + 1)]
      [] f = "ID" -> [ss EXCEPT !.ID = v]

HeaderFields == {"Tag", "As", "N", "ID"}

TamperHeader ==
    /\ pc = "pool"
    /\ Untouched
    /\ \E p \in 1..Len(pool) : \E f \in HeaderFields : \E v \in 0..(access.N - 1) :
        /\ IF f = "ID" THEN v # pool[p].ID ELSE v = 0
        /\ pool' = [pool EXCEPT ![p] = modHeader(@, f, v)]
    /\ UNCHANGED <<access, message, assoc, coins, sharings, result, pc>>

\* "this share is bad", the 17 bytes the modified-sec test stores in sec
BadBytes == <<116, 104, 105, 115, 32, 115, 104, 97, 114, 101, 32, 105, 115,
              32, 98, 97, 100>>

\* a byte field replaced by one of another length: empty, the 17 bytes of the
\* test, or the field with those bytes appended
otherLength(field, kind) ==
    CASE kind = "empty" -> <<>>
      [] kind = "bad" -> BadBytes
      [] kind = "longer" -> field \o BadBytes

modLength(ss, f, kind) ==
    CASE f = "C" -> [ss EXCEPT !.Pub.C = otherLength(@, kind)]
      [] f = "D" -> [ss EXCEPT !.Pub.D = otherLength(@, kind)]
      [] f = "J" -> [ss EXCEPT !.Pub.J = otherLength(@, kind)]
      [] f = "Sec" -> [ss EXCEPT !.Sec = otherLength(@, kind)]

LengthKinds == {"empty", "bad", "longer"}

\* one share of the pool gets one of its byte fields replaced by bytes of
\* another length, as mod.sec = []byte("this share is bad") does
TamperLength ==
    /\ pc = "pool"
    /\ Untouched
    /\ \E p \in 1..Len(pool) : \E f \in ByteFields : \E kind \in LengthKinds :
        pool' = [pool EXCEPT ![p] = modLength(@, f, kind)]
    /\ UNCHANGED <<access, message, assoc, coins, sharings, result, pc>>

CallRecover ==
    /\ pc = "pool"
    /\ result' = Recover(pool)
    /\ pc' = "done"
    /\ UNCHANGED <<access, message, assoc, coins, sharings, pool>>

\* the sharing run a second time on the same arguments and the same coins, as
\* the re-share of axRecover runs it
CallShareSame ==
    /\ pc = "pool"
    /\ Len(sharings) = 1
    /\ pool = <<>>
    /\ coins' = Append(coins, coins[1])
    /\ sharings' = Append(sharings, Share(access, message, assoc, coins[1]).shares)
    /\ UNCHANGED <<access, message, assoc, pool, result, pc>>

\* Recover called a second time on the same pool
CallRecoverAgain ==
    /\ pc = "done"
    /\ result' = [first |-> result, second |-> Recover(pool)]
    /\ pc' = "again"
    /\ UNCHANGED <<access, message, assoc, coins, sharings, pool>>

\* tags a caller may present the shares under
OtherTags == {<<>>, <<115>>, <<116, 111>>, <<115, 111, 33>>}

\* every share of the pool gets its tag replaced by one and the same other tag,
\* as the modified-tag test does with mod1 and mod2
RetagPool ==
    /\ pc = "pool"
    /\ Untouched
    /\ pool # <<>>
    /\ \E tag \in OtherTags \ {assoc} :
        pool' = [p \in 1..Len(pool) |-> [pool[p] EXCEPT !.Tag = tag]]
    /\ UNCHANGED <<access, message, assoc, coins, sharings, result, pc>>

\* the boundary between C and D moved by one byte: the bytes of the share,
\* appended, stay the same
shiftBoundary(ss, kind) ==
    CASE kind = "CtoD" ->
            [ss EXCEPT !.Pub.C = SubSeq(@, 1, Len(@) - 1),
                       !.Pub.D = <<ss.Pub.C[Len(ss.Pub.C)]>> \o @]
      [] kind = "DtoC" ->
            [ss EXCEPT !.Pub.C = Append(@, ss.Pub.D[1]),
                       !.Pub.D = Tail(@)]

\* one share of the pool gets a byte moved between its fields C and D
TamperBoundary ==
    /\ pc = "pool"
    /\ Untouched
    /\ \E p \in 1..Len(pool) : \E kind \in {"CtoD", "DtoC"} :
        /\ kind = "CtoD" => pool[p].Pub.C # <<>>
        /\ pool' = [pool EXCEPT ![p] = shiftBoundary(@, kind)]
    /\ UNCHANGED <<access, message, assoc, coins, sharings, result, pc>>

\* a share with id v made by a party that knows the sharing polynomials: its
\* secret is their value at the 8-bit x-coordinate v + 1
forgedShare(v) ==
    LET h == computeJKL(access, message, coins[1], assoc)
        base == s1Share([access EXCEPT !.N = v + 1], h.K, h.L, <<>>).shares
    IN [sharings[1][1] EXCEPT !.ID = v, !.Sec = base[v + 1].secret]

\* the caller adds a share whose id is n or 255, after the shares of lower id
PresentForged ==
    /\ pc = "pool"
    /\ \E v \in {access.N, 255} :
        /\ \A q \in PoolIDs : q < v
        /\ pool' = Append(pool, forgedShare(v))
    /\ UNCHANGED <<access, message, assoc, coins, sharings, result, pc>>

\* kSubsets called on the pool as Test_kSubsets calls it, for a size k it accepts
CallSubsets ==
    /\ pc = "pool"
    /\ \E k \in 2..Len(pool) :
        result' = [k |-> k, panic |-> kSubsets(k, pool).panic,
                   out |-> kSubsets(k, pool).out]
    /\ pc' = "subsets"
    /\ UNCHANGED <<access, message, assoc, coins, sharings, pool>>

\* key lengths around the three sizes of AES keys
KeyLens == {0, 1, 15, 16, 17, 24, 31, 32, 33}

Keys == {[i \in 1..l |-> uint8(13 * i + c)] : l \in KeyLens, c \in {1, 2}}

\* xorKeyStreamTwoInputs called with a key of any length on the message and
\* the coins, the two inputs internalShare gives it
CallKeyStream ==
    /\ pc = "pool"
    /\ \E k \in Keys :
        result' = [key |-> k, out |-> xorKeyStreamTwoInputs(k, message, coins[1])]
    /\ pc' = "stream"
    /\ UNCHANGED <<access, message, assoc, coins, sharings, pool>>

\* genuine shares of one sharing, in any order
Next == CallShare \/ Present \/ CallRecover

Spec == Init /\ [][Next]_vars

(***************************************************************************)
(* Recovery from genuine shares of one sharing                             *)
(***************************************************************************)
Done == pc = "done"

Succeeded == ~result.panic /\ result.err = ""

\* C1: Recover applied to the complete list of shares returned by Share, for
\* every access structure with 2 <= t <= n, every message (the empty one
\* included) and every associated data, returns no error, the original message
\* and validShares equal to all n shares.
RoundTrip ==
    (Done /\ pool = sharings[1]) =>
        (Succeeded /\ result.M = message /\ result.V = sharings[1])

RoundTripReached ==
    /\ Done /\ pool = sharings[1]
    /\ access.T < access.N /\ message = <<>> /\ assoc # <<>>
    /\ result.err = "" /\ Len(result.V) = access.N

\* C2: Recover on a pool made of any subset of size >= t of the shares of one
\* sharing, in any order, returns the original message without error.
ThresholdSufficiency ==
    (Done /\ Len(pool) >= access.T) => (Succeeded /\ result.M = message)

ThresholdSufficiencyReached ==
    /\ Done /\ Len(pool) = access.T /\ access.T < access.N
    /\ pool[1].ID > pool[2].ID /\ 0 \notin PoolIDs
    /\ message # <<>> /\ result.M = message

\* C3: Recover on a non-empty, consistent pool of fewer than t genuine shares
\* returns a non-nil error and no message: it neither returns data nor aborts.
ThresholdInsufficiency ==
    (Done /\ 0 < Len(pool) /\ Len(pool) < access.T) =>
        (~result.panic /\ result.err # "" /\ result.M = <<>>)

ThresholdInsufficiencyReached ==
    Done /\ 0 < Len(pool) /\ Len(pool) < access.T /\ result.panic


(***************************************************************************)
(* One share of the pool tampered with                                     *)
(***************************************************************************)
InitTamper ==
    InitWith({a \in Structures : a.T <= a.N},
             {m \in Messages : Len(m) = MaxLen}, Tags \ {<<>>})

NextTamper == CallShare \/ Present \/ TamperByte \/ CallRecover

SpecTamper == InitTamper /\ [][NextTamper]_vars

\* the position of the tampered share of the pool, and the share it was
TamperedAt == CHOOSE p \in 1..Len(pool) : ~Genuine(pool[p])

Original == sharings[1][pool[TamperedAt].ID + 1]

OneByteChanged == Len(sharings) = 1 /\ ~Untouched

SecChanged == pool[TamperedAt].Sec # Original.Sec

ChecksumFailure == ~result.panic /\ result.err = "recovery: checksum failed"

NotASubset == ~result.panic /\ result.err = "recovery: not a subset of resharing"

\* C5 as amended: on a pool of exactly t shares of one sharing in which one
\* share has one byte of C, D, J or sec changed, recovery fails; with the
\* checksum error when the byte is in sec or the tampered share is the first of
\* the pool, and with the error "not a subset of resharing" when the byte is in
\* C, D or J of a share that is not the first.
TamperDetectionByPosition ==
    (Done /\ OneByteChanged /\ Len(pool) = access.T) =>
        IF SecChanged \/ TamperedAt = 1 THEN ChecksumFailure ELSE NotASubset

TamperDetectionByPositionReached ==
    /\ Done /\ OneByteChanged /\ Len(pool) = access.T
    /\ TamperedAt = access.T /\ pool[TamperedAt].Pub.C # Original.Pub.C
    /\ NotASubset

\* C5: on a pool of exactly t shares of one sharing in which one share has one
\* byte of C, D, J or sec changed, recovery fails with the checksum error,
\* whichever field was changed and whichever position the tampered share has.
TamperDetection ==
    (Done /\ OneByteChanged /\ Len(pool) = access.T) => ChecksumFailure


(***************************************************************************)
(* One share tampered with in a pool that keeps t untampered shares        *)
(***************************************************************************)
\* three of five, the access structure of the tests of recovery despite a bad
\* share
Wide == NewAccessStructure(3, 5)

InitWide == InitWith({Wide}, {m \in Messages : Len(m) = MaxLen}, Tags \ {<<>>})

NextWide == CallShare \/ PresentInOrder \/ TamperByte \/ CallRecover

SpecWide == InitWide /\ [][NextWide]_vars

InV(ss) == \E v \in 1..Len(result.V) : result.V[v] = ss

Untampered == {p \in 1..Len(pool) : Genuine(pool[p])}

\* C4: on a pool of genuine shares of one sharing in which exactly one share
\* has had a byte of C, D, J or sec changed and which still contains at least t
\* untampered shares, Recover succeeds, returns the original message, and
\* validShares does not contain the tampered share, for every pool size, every
\* threshold and every position of the tampered share.
ErrorCorrectingRecovery ==
    (Done /\ OneByteChanged /\ Cardinality(Untampered) >= access.T) =>
        (Succeeded /\ result.M = message /\ ~InV(pool[TamperedAt]))

ErrorCorrectingRecoveryFails ==
    /\ Done /\ OneByteChanged /\ Cardinality(Untampered) >= access.T
    /\ ~result.panic /\ result.err # ""

\* C8: when Recover succeeds with (M, V), a share of the pool is in V if and
\* only if it is a genuine share of the sharing that explains M, so every pool
\* share absent from V is an invalid or corrupted one.
ValidSharesExact ==
    (Done /\ Len(sharings) = 1 /\ Succeeded /\ result.M = message) =>
        \A p \in 1..Len(pool) : InV(pool[p]) <=> Genuine(pool[p])

ValidSharesMissGenuine ==
    /\ Done /\ Len(sharings) = 1 /\ Succeeded /\ result.M = message
    /\ \E p \in 1..Len(pool) : Genuine(pool[p]) /\ ~InV(pool[p])


(***************************************************************************)
(* Shares of two independent sharings in one pool                          *)
(***************************************************************************)
\* three of six: room for two disjoint sets of t shares
Twofold == NewAccessStructure(3, 6)

InitTwo == InitWith({Twofold}, {m \in Messages : Len(m) = MaxLen}, Tags \ {<<>>})

NextTwo == CallShare \/ CallShareAgain \/ PresentInOrder \/ CallRecover

SpecTwo == InitTwo /\ [][NextTwo]_vars

FromFirst(ss) == \E i \in 1..Len(sharings[1]) : ss = sharings[1][i]

FromSecond(ss) ==
    Len(sharings) = 2 /\ \E i \in 1..Len(sharings[2]) : ss = sharings[2][i]

\* the shares of the pool that come from the first and from the second sharing
FirstPart == SelectSeq(pool, FromFirst)

SecondPart == SelectSeq(pool, FromSecond)

Explains(shares) == LET r == axRecover(shares) IN ~r.panic /\ r.err = ""

Candidates ==
    LET p == computeKPlausibleShareSets(pool)
    IN {p.out[c] : c \in 1..Len(p.out)}

AmbiguousRecovery ==
    /\ ~result.panic
    /\ \E a \in Candidates : \E b \in Candidates :
        result.err = "multiple explanations: " \o sharesDesc(a) \o " and "
                        \o sharesDesc(b)

\* C6: when a pool mixes shares of two independent sharings (same message,
\* access structure and tag, distinct ids) so that two disjoint size-t subsets
\* each recover on their own, Recover fails with the "multiple explanations"
\* error, for every t >= 2 and every ordering of the shares in the pool.
AmbiguityDetection ==
    (/\ Done /\ Len(FirstPart) = access.T /\ Len(SecondPart) = access.T
     /\ Explains(FirstPart) /\ Explains(SecondPart))
        => AmbiguousRecovery

AmbiguityMissed ==
    /\ Done /\ Len(FirstPart) = access.T /\ Len(SecondPart) = access.T
    /\ Explains(FirstPart) /\ Explains(SecondPart)
    /\ ~result.panic /\ result.err = "recovery: checksum failed"

\* C7: if two subsets of the pool of size >= t both pass axRecover and neither
\* is a subset of the other, Recover returns an error instead of (M, V).
NoMessageWhenAmbiguous ==
    (/\ Done /\ Len(FirstPart) >= access.T /\ Len(SecondPart) >= access.T
     /\ Explains(FirstPart) /\ Explains(SecondPart)
     /\ ~isSubset(FirstPart, SecondPart) /\ ~isSubset(SecondPart, FirstPart))
        => (~result.panic /\ result.err # "" /\ result.M = <<>>)

MessageDespiteAmbiguity ==
    /\ Done /\ Len(FirstPart) >= access.T /\ Len(SecondPart) >= access.T
    /\ Explains(FirstPart) /\ Explains(SecondPart)
    /\ Succeeded /\ result.M = message /\ result.V = SecondPart


(***************************************************************************)
(* Pools with repeated shares and changed headers                          *)
(***************************************************************************)
InitPool ==
    InitWith({a \in Structures : a.T <= a.N},
             {m \in Messages : Len(m) = MaxLen}, Tags)

NextPool == CallShare \/ PresentAgain \/ TamperHeader \/ CallRecover

SpecPool == InitPool /\ [][NextPool]_vars

Repeats(q) == \E p \in 1..(q - 1) : pool[p].ID = pool[q].ID

HasRepeat == \E q \in 1..Len(pool) : Repeats(q)

\* the position of the first share whose id was seen before it
FirstRepeat == CHOOSE q \in 1..Len(pool) :
                    Repeats(q) /\ \A p \in 1..(q - 1) : ~Repeats(p)

ConsistentUpTo(q) ==
    \A p \in 1..q : pool[p].As = pool[1].As /\ pool[p].Tag = pool[1].Tag

DuplicateID ==
    ~result.panic /\ result.err = "plausible shares: duplicate share ID found"

InconsistentAccessStructure ==
    /\ ~result.panic
    /\ result.err = "plausible shares: shares have inconsistent access structures"

InconsistentTag ==
    ~result.panic /\ result.err = "plausible shares: shares have inconsistent tags"

TagBinding ==
    (/\ Done /\ Len(pool) = 2 /\ pool[1].ID # pool[2].ID
     /\ pool[1].Tag # pool[2].Tag
     /\ \A p \in 1..2 : Genuine([pool[p] EXCEPT !.Tag = assoc]))
        => InconsistentTag

TagBindingReached ==
    /\ Done /\ Len(pool) = 2 /\ pool[1].ID > pool[2].ID
    /\ pool[1].Tag # assoc /\ pool[2].Tag = assoc
    /\ \A p \in 1..2 : Genuine([pool[p] EXCEPT !.Tag = assoc])
    /\ InconsistentTag


OtherStructure(p) == pool[p].As # pool[1].As

\* the position of the first share whose (t, n) is not that of the first share
FirstOtherStructure ==
    CHOOSE p \in 1..Len(pool) :
        OtherStructure(p) /\ \A q \in 1..(p - 1) : ~OtherStructure(q)

\* C11: a pool in which some share's (t, n) differs from that of the first
\* share makes Recover fail with the inconsistent access structures error,
\* provided no earlier share in pool order already violated a check (a tag
\* other than the first share's, or an id seen before it).
AccessStructureConsistency ==
    (/\ Done /\ \E p \in 1..Len(pool) : OtherStructure(p)
     /\ \A q \in 1..(FirstOtherStructure - 1) :
            pool[q].Tag = pool[1].Tag /\ ~Repeats(q))
        => InconsistentAccessStructure

AccessStructureConsistencyReached ==
    /\ Done /\ Len(pool) = 3 /\ OtherStructure(3) /\ FirstOtherStructure = 3
    /\ pool[3].As.N # pool[1].As.N /\ Repeats(3)
    /\ InconsistentAccessStructure


OtherTag(p) == pool[p].Tag # pool[1].Tag

ValidationFails ==
    \/ pool = <<>>
    \/ \E p \in 1..Len(pool) : OtherStructure(p) \/ OtherTag(p) \/ Repeats(p)

NoSharesProvided ==
    ~result.panic /\ result.err = "plausible shares: no shares provided"

\* C12: when pool validation fails (empty pool, inconsistent access structure,
\* inconsistent tag or duplicate id), Recover returns the validation error,
\* prefixed "plausible shares: ", without enumerating any subset and without a
\* single call of axRecover; an empty pool yields "no shares provided".
FailFast ==
    (Done /\ ValidationFails) =>
        /\ result.enumerated = 0 /\ result.tried = 0
        /\ IF pool = <<>> THEN NoSharesProvided
           ELSE InconsistentAccessStructure \/ InconsistentTag \/ DuplicateID

FailFastReached ==
    /\ Done /\ Len(pool) = MaxPool /\ Repeats(MaxPool) /\ ~Repeats(2)
    /\ DuplicateID /\ result.enumerated = 0 /\ result.tried = 0


(***************************************************************************)
(* The helpers called on their own: kSubsets on pools of up to five shares *)
(* in any order, xorKeyStreamTwoInputs on keys of any length               *)
(***************************************************************************)
InitUnit == InitWith({Wide}, {m \in Messages : Len(m) = MaxLen}, Tags \ {<<>>})

NextUnit == CallShare \/ Present \/ CallSubsets \/ CallKeyStream

SpecUnit == InitUnit /\ [][NextUnit]_vars

RECURSIVE Binomial(_, _)
Binomial(m, k) ==
    IF k = 0 \/ k = m THEN 1
    ELSE IF k > m THEN 0
    ELSE Binomial(m - 1, k - 1) + Binomial(m - 1, k)

Position(ss) == CHOOSE p \in 1..Len(pool) : pool[p] = ss

IDsOf(set) == {set[a].ID : a \in 1..Len(set)}

InPoolOrder(set) ==
    \A a, b \in 1..Len(set) : a < b => Position(set[a]) < Position(set[b])

\* C13: for an ordered pool of m elements and every k with 2 <= k <= m,
\* kSubsets(k, pool) yields exactly C(m, k) subsets, no two of them the same
\* combination, each of k elements in the pool's relative order.
SubsetEnumeration ==
    pc = "subsets" =>
        /\ ~result.panic
        /\ Len(result.out) = Binomial(Len(pool), result.k)
        /\ \A a, b \in 1..Len(result.out) :
                a # b => IDsOf(result.out[a]) # IDsOf(result.out[b])
        /\ \A a \in 1..Len(result.out) :
                /\ Len(result.out[a]) = result.k
                /\ \A e \in 1..result.k : \E p \in 1..Len(pool) : pool[p] = result.out[a][e]
                /\ InPoolOrder(result.out[a])

\* C19: xorKeyStreamTwoInputs fails for every key whose length is not 32 and
\* succeeds for every key of 32 bytes.
KeystreamKeyCheck ==
    pc = "stream" => (result.out.err # "" <=> Len(result.key) # Size)


(***************************************************************************)
(* Pools in which one share has a byte field of another length             *)
(***************************************************************************)
InitLength ==
    InitWith({a \in Structures : a.T <= a.N}, {m \in Messages : Len(m) = MaxLen},
             Tags \ {<<>>})

NextLength == CallShare \/ Present \/ TamperLength \/ CallRecover

SpecLength == InitLength /\ [][NextLength]_vars

\* C14: for every non-empty pool that passes pool validation, shares whose sec,
\* C, D or J have different or wrong lengths at any position included, Recover
\* returns a result or an error and never panics.  Stated for the pools of at
\* least t shares, which leaves the panic of an empty candidate list aside.
NoCrashOnLengths ==
    (Done /\ pool # <<>> /\ ~ValidationFails /\ Len(pool) >= pool[1].As.T)
        => ~result.panic


\* C15: Recover has exactly two outcomes: a nil error with the secret and a
\* validShares list of at least t shares, or a non-nil error with a nil
\* message and nil validShares; never a message together with an error.
TwoOutcomes ==
    Done =>
        \/ /\ Succeeded
           /\ Len(result.V) >= access.T
        \/ /\ ~result.panic
           /\ result.err # ""
           /\ result.M = <<>>
           /\ result.V = <<>>


(***************************************************************************)
(* The shares Share returns                                                *)
(***************************************************************************)
Shared == Len(sharings) >= 1

\* C16: a successful Share returns exactly n shares whose ids are 0, 1, ...,
\* n-1 in list order, all with the access structure and the associated data
\* passed in and with identical C, D and J.
ShareShape ==
    \A s \in 1..Len(sharings) :
        /\ Len(sharings[s]) = access.N
        /\ \A i \in 1..Len(sharings[s]) :
            /\ sharings[s][i].ID = i - 1
            /\ sharings[s][i].As = access
            /\ sharings[s][i].Tag = assoc
            /\ sharings[s][i].Pub = sharings[s][1].Pub

ShareShapeReached ==
    /\ Shared /\ access.N = MaxN /\ assoc # <<>>
    /\ Len(sharings[1]) = MaxN
    /\ sharings[1][MaxN].ID = MaxN - 1
    /\ sharings[1][MaxN].Tag = assoc
    /\ sharings[1][MaxN].Pub = sharings[1][1].Pub

\* C17 as stated: the secret of every share returned by Share is as long as
\* the shared message.
SecretLengthOfMessage ==
    \A s \in 1..Len(sharings) : \A i \in 1..Len(sharings[s]) :
        Len(sharings[s][i].Sec) = Len(message)

\* C17: the secret of every share returned by Share is as long as the key K,
\* 32 bytes, whatever the length of the message; C is as long as the message.
SecretLengthOfKey ==
    \A s \in 1..Len(sharings) : \A i \in 1..Len(sharings[s]) :
        /\ Len(sharings[s][i].Sec) = Size
        /\ Len(sharings[s][i].Pub.C) = Len(message)

SecretLengthOfKeyReached ==
    /\ Shared /\ Len(message) = MaxLen /\ access.N = MaxN
    /\ Len(sharings[1][MaxN].Sec) = Size
    /\ Len(sharings[1][MaxN].Pub.C) = MaxLen


(***************************************************************************)
(* Two of three, with up to two shares of the pool changed in one byte     *)
(***************************************************************************)
Pair == NewAccessStructure(2, 3)

InitTwice == InitWith({Pair}, {m \in Messages : Len(m) = MaxLen}, Tags \ {<<>>})

\* a second share of the pool gets one byte changed
TamperByteAgain ==
    /\ pc = "pool"
    /\ Cardinality(Untampered) = Len(pool) - 1
    /\ \E p \in Untampered : \E f \in ByteFields :
        \E i \in {1, Len(fieldOf(pool[p], f))} \cap DOMAIN fieldOf(pool[p], f) :
            pool' = [pool EXCEPT ![p] = modByte(@, f, i)]
    /\ UNCHANGED <<access, message, assoc, coins, sharings, result, pc>>

NextTwice ==
    CallShare \/ PresentInOrder \/ TamperByte \/ TamperByteAgain \/ CallRecover

SpecTwice == InitTwice /\ [][NextTwice]_vars

\* the candidates in the order exAxRecover tries them
allShareSets == computeKPlausibleShareSets(pool).out

EveryCandidateFails ==
    /\ allShareSets # <<>>
    /\ \A c \in 1..Len(allShareSets) :
        ~axRecover(allShareSets[c]).panic /\ axRecover(allShareSets[c]).err # ""

\* C18: when every enumerated candidate subset fails axRecover, Recover fails
\* with "recovery: " wrapping the error of the last subset attempted in
\* enumeration order.
NoExplanation ==
    (Done /\ ~ValidationFails /\ EveryCandidateFails) =>
        /\ ~result.panic
        /\ result.M = <<>> /\ result.V = <<>>
        /\ result.tried = Len(allShareSets)
        /\ result.err = "recovery: " \o axRecover(allShareSets[Len(allShareSets)]).err

NoExplanationReached ==
    /\ Done /\ ~ValidationFails /\ EveryCandidateFails
    /\ Len(allShareSets) = 4
    /\ axRecover(allShareSets[1]).err = "checksum failed"
    /\ result.err = "recovery: not a subset of resharing"


(***************************************************************************)
(* The sharing and the recovery run twice on the same inputs               *)
(***************************************************************************)
InitAgain == InitWith({Pair}, {m \in Messages : Len(m) = MaxLen}, Tags)

NextAgain ==
    \/ CallShare
    \/ CallShareSame
    \/ PresentInOrder
    \/ TamperByte
    \/ CallRecover
    \/ CallRecoverAgain

SpecAgain == InitAgain /\ [][NextAgain]_vars

AcceptedAt ==
    CHOOSE c \in 1..Len(allShareSets) :
        /\ allShareSets[c] = result.V
        /\ \A b \in 1..(c - 1) : allShareSets[b] # result.V

LargestFirstOrder ==
    /\ allShareSets[1] = pool
    /\ \A c, d \in 1..Len(allShareSets) :
        c < d => Len(allShareSets[c]) >= Len(allShareSets[d])
    /\ {Len(allShareSets[c]) : c \in 1..Len(allShareSets)} = access.T..Len(pool)

\* C21: candidates are tried by decreasing size from len(pool) down to t, the
\* whole pool first; the accepted V is the first candidate in that order that
\* axRecover accepts, so no candidate before V recovers; a pool of genuine
\* shares (at least t of them) is accepted whole on the first attempt.
LargestFirst ==
    /\ (Done /\ Succeeded) =>
        /\ LargestFirstOrder
        /\ \E c \in 1..Len(allShareSets) : allShareSets[c] = result.V
        /\ Explains(result.V)
        /\ \A b \in 1..(AcceptedAt - 1) : ~Explains(allShareSets[b])
    /\ (Done /\ Untouched /\ Len(pool) >= access.T) =>
        /\ Succeeded
        /\ result.V = pool
        /\ result.tried = Len(allShareSets)

LargestFirstReached ==
    /\ Done /\ Succeeded /\ ~Untouched
    /\ Len(pool) = 5
    /\ AcceptedAt > 4
    /\ Len(result.V) = 3
    /\ ~Explains(allShareSets[2])


(***************************************************************************)
(* The gates of axRecover, stated over the candidates of the pool          *)
(***************************************************************************)
\* the key combined from the sec fields of a subset
CombinedKey(shares) == s1Recover([i \in 1..Len(shares) |-> toS1(shares[i])])

\* J and K recomputed from the decrypted (M, R) equal the first share's J and
\* the combined key
ChecksumGate(shares, K, d) ==
    LET recov == computeJKL(shares[1].As, d.c1, d.c2, shares[1].Tag)
    IN recov.J = shares[1].Pub.J /\ recov.K = K

\* every share of the subset is byte-equal to a share of the re-sharing
ReshareGate(shares, d) ==
    LET reshares == internalShare(shares[1].As, d.c1, d.c2, shares[1].Tag).shares
    IN \A a \in 1..Len(shares) :
        \E b \in 1..Len(reshares) : Bytes(shares[a]) = Bytes(reshares[b])

GatesDecrypted(shares, r, K, d) ==
    IF d.err # "" THEN r.err # ""
    ELSE /\ r.err = "" => (r.M = d.c1 /\ ChecksumGate(shares, K, d) /\ ReshareGate(shares, d))
         /\ (~ChecksumGate(shares, K, d) /\ ~ReshareGate(shares, d))
                => r.err = "checksum failed"

GatesCombined(shares, r, k) ==
    IF k.panic THEN r.panic
    ELSE IF k.err # "" THEN r.err # ""
    ELSE /\ ~r.panic
         /\ GatesDecrypted(shares, r, k.msg,
                xorKeyStreamTwoInputs(k.msg, shares[1].Pub.C, shares[1].Pub.D))

Gates(shares) == GatesCombined(shares, axRecover(shares), CombinedKey(shares))

FailsBoth(shares, k) ==
    /\ ~k.panic /\ k.err = "" /\ Len(k.msg) \in aesKeySizes
    /\ ~ChecksumGate(shares, k.msg,
            xorKeyStreamTwoInputs(k.msg, shares[1].Pub.C, shares[1].Pub.D))
    /\ ~ReshareGate(shares,
            xorKeyStreamTwoInputs(k.msg, shares[1].Pub.C, shares[1].Pub.D))

\* C22: axRecover returns a message for a subset only if the recomputed J and
\* K equal the first share's J and the combined key and every share of the
\* subset is byte-equal to a share of the re-sharing of (A, M, R, T); the
\* checksum is verified first, so a subset failing both gates reports
\* "checksum failed".
AxRecoverGates ==
    Done => \A c \in 1..Len(allShareSets) : Gates(allShareSets[c])

AxRecoverGatesReached ==
    /\ Done /\ Len(allShareSets) = 4
    /\ FailsBoth(allShareSets[1], CombinedKey(allShareSets[1]))
    /\ axRecover(allShareSets[1]).err = "checksum failed"
    /\ axRecover(allShareSets[2]).err = "not a subset of resharing"
    /\ ~result.panic /\ result.err # ""


(***************************************************************************)
(* Genuine shares presented under another tag                              *)
(***************************************************************************)
InitTag ==
    InitWith({a \in Structures : a.T <= a.N}, {m \in Messages : Len(m) = MaxLen},
             Tags)

NextTag == CallShare \/ Present \/ RetagPool \/ CallRecover

SpecTag == InitTag /\ [][NextTag]_vars

Retagged ==
    /\ pool # <<>>
    /\ \A p \in 1..Len(pool) :
        /\ pool[p].Tag = pool[1].Tag
        /\ pool[p].Tag # assoc
        /\ Genuine([pool[p] EXCEPT !.Tag = assoc])

\* C23: a pool of genuine shares (at least t of them) in which every share's
\* tag has been replaced by one and the same different tag passes pool
\* validation but fails with "recovery: checksum failed"; Recover never
\* returns the message for shares presented under another tag than Share's.
AssociatedDataBinding ==
    (Done /\ Retagged) =>
        /\ ~ValidationFails
        /\ ~Succeeded
        /\ result.M = <<>> /\ result.V = <<>>
        /\ Len(pool) >= access.T => ChecksumFailure

AssociatedDataBindingReached ==
    /\ Done /\ Retagged
    /\ Len(pool) = MaxN /\ access.T = 2
    /\ assoc # <<>> /\ pool[1].Tag = <<>>
    /\ ChecksumFailure


(***************************************************************************)
(* validShares as a sub-list of the pool (three of five)                   *)
(***************************************************************************)
\* sub is list with some of its elements left out
RECURSIVE IsSubList(_, _)
IsSubList(sub, list) ==
    IF sub = <<>> THEN TRUE
    ELSE IF list = <<>> THEN FALSE
    ELSE IF Head(sub) = Head(list) THEN IsSubList(Tail(sub), Tail(list))
    ELSE IsSubList(sub, Tail(list))

ValidOfPool == SelectSeq(pool, Genuine)

\* C24: on success validShares is a sub-list of the pool (only presented
\* shares, unmodified, without repetition, in the pool's relative order), so
\* the i-th returned share is byte-equal to the i-th valid share of the pool.
ValidSharesInOrder ==
    (Done /\ Succeeded) =>
        /\ IsSubList(result.V, pool)
        /\ \A a, b \in 1..Len(result.V) : a # b => result.V[a] # result.V[b]
        /\ \A i \in 1..Len(result.V) :
            /\ i <= Len(ValidOfPool)
            /\ Bytes(result.V[i]) = Bytes(ValidOfPool[i])


ValidSharesInOrderReached ==
    /\ Done /\ Succeeded /\ ~Untouched
    /\ Len(pool) = 5 /\ Len(result.V) = 3 /\ Len(ValidOfPool) = 4
    /\ IsSubList(result.V, pool)
    /\ Bytes(result.V[3]) = Bytes(ValidOfPool[3])

(***************************************************************************)
(* The seed of the base split                                              *)
(***************************************************************************)
\* the digests of sharing s
DigestsOf(s) == computeJKL(access, message, coins[s], assoc)

\* the secrets the base layer gives when it splits K of sharing s under seed
SecretsSeededBy(s, seed) ==
    LET base == s1Share(access, DigestsOf(s).K, seed, <<>>).shares
    IN [i \in 1..Len(base) |-> base[i].secret]

SecretsOf(s) == [i \in 1..Len(sharings[s]) |-> sharings[s][i].Sec]

OneSharingExplains ==
    /\ Len(sharings) = 1
    /\ \A c \in 1..Len(allShareSets) :
        Explains(allShareSets[c]) =>
            \A a \in 1..Len(allShareSets[c]) : Genuine(allShareSets[c][a])

\* C26: if all subsets of the pool that pass axRecover consist of shares of one
\* and the same sharing, Recover does not fail with the multiple-explanations
\* error.
NoSpuriousAmbiguity ==
    (Done /\ ~ValidationFails /\ OneSharingExplains) => ~AmbiguousRecovery


(***************************************************************************)
(* Shares whose fields are cut differently (two of three)                  *)
(***************************************************************************)
InitBoundary == InitWith({Pair}, Messages, Tags)

NextBoundary == CallShare \/ PresentInOrder \/ TamperBoundary \/ CallRecover

SpecBoundary == InitBoundary /\ [][NextBoundary]_vars

\* the shares axRecover regenerates for an accepted subset: d is the (M, R) it
\* decrypted
RegeneratedWith(shares, d) ==
    internalShare(shares[1].As, d.c1, d.c2, shares[1].Tag).shares

Regenerated(shares) ==
    RegeneratedWith(shares,
        xorKeyStreamTwoInputs(CombinedKey(shares).msg,
                              shares[1].Pub.C, shares[1].Pub.D))

FieldWiseEqual(ss, other) ==
    /\ ss.Pub.C = other.Pub.C
    /\ ss.Pub.D = other.Pub.D
    /\ ss.Pub.J = other.Pub.J
    /\ ss.Sec = other.Sec
    /\ ss.Tag = other.Tag

FieldWiseIn(shares, reshares) ==
    \A v \in 1..Len(shares) :
        \E r \in 1..Len(reshares) :
            reshares[r].ID = shares[v].ID /\ FieldWiseEqual(shares[v], reshares[r])

\* C27: whenever Recover succeeds, every share of validShares has C, D, J, sec
\* and tag each equal, field by field, to those of the regenerated share with
\* the same id; in particular all shares of validShares carry the same C, D, J.
FieldWiseEquality ==
    (Done /\ Succeeded) =>
        /\ FieldWiseIn(result.V, Regenerated(result.V))
        /\ \A v \in 1..Len(result.V) : result.V[v].Pub = result.V[1].Pub


(***************************************************************************)
(* Pools holding shares whose id is outside 0..n-1                         *)
(***************************************************************************)
InitID ==
    InitWith({a \in Structures : a.T <= a.N}, {m \in Messages : Len(m) = MaxLen},
             Tags \ {<<>>})

NextID == CallShare \/ PresentInOrder \/ PresentForged \/ CallRecover

SpecID == InitID /\ [][NextID]_vars

\* C28: whenever Recover succeeds, every share of validShares has an id
\* strictly below n of the common access structure and the ids of validShares
\* are pairwise distinct, although isSupportedIDSet always accepts.
ValidIDs ==
    (Done /\ Succeeded) =>
        /\ \A v \in 1..Len(result.V) : result.V[v].ID < pool[1].As.N
        /\ \A a, b \in 1..Len(result.V) :
            a # b => result.V[a].ID # result.V[b].ID

ValidIDsReached ==
    /\ Done /\ Succeeded
    /\ \E p \in 1..Len(pool) : pool[p].ID = access.N
    /\ Len(result.V) = access.N
    /\ \A v \in 1..Len(result.V) : result.V[v].ID < access.N
    /\ isSupportedIDSet(access, [p \in 1..Len(pool) |-> pool[p].ID])

\* the x-coordinates s1Recover interpolates at for a subset
xSamples(shares) == [j \in 1..Len(shares) |-> uint8(shares[j].ID + 1)]

\* C29: for every share produced by Share and for every share of a pool that
\* passes pool validation in Recover, the 8-bit value id + 1 used as
\* x-coordinate is in 1..255: no sample is taken at x = 0.
NoSampleAtZero ==
    /\ \A s \in 1..Len(sharings) : \A j \in 1..Len(sharings[s]) :
        xSamples(sharings[s])[j] \in 1..255
    /\ (Done /\ ~ValidationFails /\ result.tried > 0) =>
        \A j \in 1..Len(pool) : xSamples(pool)[j] \in 1..255


(***************************************************************************)
(* The calls of kSubsets that Recover makes                                *)
(***************************************************************************)
\* the sizes k of the calls kSubsets(k, pool) of computeKPlausibleShareSets
SizesCalled == pool[1].As.T..Len(pool)

\* C30: for every pool that passes validation with t >= 2, every call
\* kSubsets(k, pool) made by Recover has t <= k <= len(pool): the k > len
\* panic is not reached and every returned subset has exactly k elements at
\* strictly increasing pool positions.
SubsetCallsInRange ==
    (Done /\ pool # <<>> /\ ~ValidationFails /\ pool[1].As.T >= 2) =>
        /\ ~computeKPlausibleShareSets(pool).panic
        /\ result.enumerated = Cardinality(SizesCalled)
        /\ \A k \in SizesCalled :
            /\ ~kSubsets(k, pool).panic
            /\ \A c \in 1..Len(kSubsets(k, pool).out) :
                Len(kSubsets(k, pool).out[c]) = k
        /\ \A c \in 1..Len(allShareSets) :
            /\ Len(allShareSets[c]) \in SizesCalled
            /\ IsSubList(allShareSets[c], pool)

SubsetCallsInRangeReached ==
    /\ Done /\ ~ValidationFails /\ Len(pool) = MaxPool
    /\ pool[1].As.T = 2
    /\ result.enumerated = MaxPool - 1
    /\ Len(allShareSets[Len(allShareSets)]) = 2
    /\ allShareSets[1] = pool


====
